---------------------------- MODULE Spec2Model ----------------------------
(***************************************************************************)
(* The HelloFS filesystem handler of examples/hello.rs: one in-memory file *)
(* ("hello.txt", inode 2) under a root directory (inode 1).  The handler   *)
(* state is the handle counter `fh` and the byte buffer                    *)
(* `hello_txt_content`; every protocol operation is one action.            *)
(*                                                                         *)
(* Each handler is a pure operator from (state, arguments) to an outcome   *)
(* [content, fh, replies, panicked]; the action of the same name (capital  *)
(* initial) applies it and records the call, the state before the call and *)
(* the replies the call issued.  A Rust panic (integer overflow under      *)
(* overflow checks, slice index out of range) ends the handler before it   *)
(* replies and ends the process: no action is enabled afterwards.          *)
(*                                                                         *)
(* The machine's fixed-width integers are narrowed (UsizeBits, U32Bits) so *)
(* that wrap-around arithmetic is computed, not assumed.                   *)
(***************************************************************************)
EXTENDS Integers, Sequences, FiniteSets, TLC

\* ------------------------------------------------------------------ bounds
\* Longest content buffer the model lets a write produce.
MaxLen == 3
\* Number of successful opens the model allows (caps the handle counter).
MaxFh == 2
\* Width of usize in the model (the real width is 64).
UsizeBits == 6
\* Width of u32 in the model (the real width is 32).
U32Bits == 5

UsizeModulus == 2 ^ UsizeBits
U32Modulus == 2 ^ U32Bits

\* ------------------------------------------------------- program constants
TTL == 1
ENOENT == 2
UNIX_EPOCH == 0

HELLO_DIR_ATTR ==
  [ino |-> 1, size |-> 0, blocks |-> 0,
   atime |-> UNIX_EPOCH, mtime |-> UNIX_EPOCH, ctime |-> UNIX_EPOCH,
   crtime |-> UNIX_EPOCH, kind |-> "Directory", perm |-> 493, nlink |-> 2,
   uid |-> 501, gid |-> 20, rdev |-> 0, flags |-> 0, blksize |-> 512]

HELLO_TXT_ATTR ==
  [ino |-> 2, size |-> 13, blocks |-> 1,
   atime |-> UNIX_EPOCH, mtime |-> UNIX_EPOCH, ctime |-> UNIX_EPOCH,
   crtime |-> UNIX_EPOCH, kind |-> "RegularFile", perm |-> 420, nlink |-> 1,
   uid |-> 501, gid |-> 20, rdev |-> 0, flags |-> 0, blksize |-> 512]

\* The listing built by readdir: (inode, kind, name).
entries ==
  << [ino |-> 1, kind |-> "Directory", name |-> "."],
     [ino |-> 1, kind |-> "Directory", name |-> ".."],
     [ino |-> 2, kind |-> "RegularFile", name |-> "hello.txt"] >>

\* ----------------------------------------------------------------- helpers
Min(a, b) == IF a <= b THEN a ELSE b
Max(a, b) == IF a >= b THEN a ELSE b

\* Option<T>: None is <<>>, Some(v) is <<v>>.
None == << >>
Some(v) == << v >>

\* `x as usize` of a signed 64-bit x: reduction modulo the word.
AsUsize(x) == x % UsizeModulus
\* `x as u32`: reduction modulo 2^32 (narrowed).
AsU32(x) == x % U32Modulus

\* Names whose bytes are not valid UTF-8: OsStr::to_str gives None for them.
NonUtf8Names == {"hello.txt\\xFF"}
to_str(name) == IF name \in NonUtf8Names THEN None ELSE Some(name)

\* The replies a handler can issue.
ReplyEntry(ttl, attr, generation) ==
  [kind |-> "entry", ttl |-> ttl, attr |-> attr, generation |-> generation]
ReplyAttr(ttl, attr) == [kind |-> "attr", ttl |-> ttl, attr |-> attr]
ReplyError(errno) == [kind |-> "error", errno |-> errno]
ReplyOpened(h, flags) == [kind |-> "opened", fh |-> h, flags |-> flags]
ReplyData(bytes) == [kind |-> "data", data |-> bytes]
ReplyWritten(n) == [kind |-> "written", size |-> n]
ReplyDirectory(accepted, attempts) ==
  [kind |-> "directory", entries |-> accepted, attempts |-> attempts]

\* What a handler leaves behind: the state, the replies it issued in order,
\* and whether it panicked.
Outcome(content, fhv, rs) ==
  [content |-> content, fh |-> fhv, replies |-> rs, panicked |-> FALSE]
\* A panic unwinds out of the handler before it has replied or written.
Panic(content, fhv) ==
  [content |-> content, fh |-> fhv, replies |-> << >>, panicked |-> TRUE]

\* ---------------------------------------------------------------- HelloFS
\* Mutant: the size of the constant HELLO_TXT_ATTR is not replaced.
hello_txt_attr_constant_size(content, now) ==
  [HELLO_TXT_ATTR EXCEPT !.atime = now, !.mtime = now, !.ctime = now]

hello_txt_attr(content, now) ==
  [HELLO_TXT_ATTR EXCEPT !.size = Len(content),
                         !.atime = now, !.mtime = now, !.ctime = now]

\* Mutant: the counter is incremented before it is read.
next_fh_preincrement(fhv) == [ret |-> fhv + 1, fh |-> fhv + 1]

\* Returns the handle and the incremented counter.
next_fh(fhv) == [ret |-> fhv, fh |-> fhv + 1]

\* Mutant: the parent is not compared.
lookup_any_parent(content, fhv, parent, name, now) ==
  IF to_str(name) = Some("hello.txt")
  THEN Outcome(content, fhv, << ReplyEntry(TTL, hello_txt_attr(content, now), 0) >>)
  ELSE Outcome(content, fhv, << ReplyError(ENOENT) >>)

lookup(content, fhv, parent, name, now) ==
  IF parent = 1 /\ to_str(name) = Some("hello.txt")
  THEN Outcome(content, fhv, << ReplyEntry(TTL, hello_txt_attr(content, now), 0) >>)
  ELSE Outcome(content, fhv, << ReplyError(ENOENT) >>)

getattr(content, fhv, ino, now) ==
  CASE ino = 1 -> Outcome(content, fhv, << ReplyAttr(TTL, HELLO_DIR_ATTR) >>)
    [] ino = 2 -> Outcome(content, fhv, << ReplyAttr(TTL, hello_txt_attr(content, now)) >>)
    [] OTHER   -> Outcome(content, fhv, << ReplyError(ENOENT) >>)

\* Mutant: a supplied size truncates or zero-extends the buffer of FILE.
setattr_resizes(content, fhv, ino, req, now) ==
  CASE ino = 1 -> Outcome(content, fhv, << ReplyAttr(TTL, HELLO_DIR_ATTR) >>)
    [] ino = 2 ->
         LET resized ==
               IF req.size = None THEN content
               ELSE [i \in 1 .. req.size[1] |->
                       IF i <= Len(content) THEN content[i] ELSE 0]
         IN Outcome(resized, fhv, << ReplyAttr(TTL, hello_txt_attr(resized, now)) >>)
    [] OTHER   -> Outcome(content, fhv, << ReplyError(ENOENT) >>)

\* req holds the optional fields mode, uid, gid, size, atime, mtime, fh, flags.
setattr(content, fhv, ino, req, now) ==
  CASE ino = 1 -> Outcome(content, fhv, << ReplyAttr(TTL, HELLO_DIR_ATTR) >>)
    [] ino = 2 -> Outcome(content, fhv, << ReplyAttr(TTL, hello_txt_attr(content, now)) >>)
    [] OTHER   -> Outcome(content, fhv, << ReplyError(ENOENT) >>)

\* Mutant: open empties the buffer (every open treated as O_TRUNC).
open_truncates(content, fhv, ino, flags) ==
  IF ino = 2
  THEN LET n == next_fh(fhv)
       IN Outcome(<< >>, n.fh, << ReplyOpened(n.ret, AsU32(flags)) >>)
  ELSE Outcome(content, fhv, << ReplyError(ENOENT) >>)

\* Mutant: opening the directory is refused with EISDIR (21).
open_isdir(content, fhv, ino, flags) ==
  CASE ino = 2 -> LET n == next_fh(fhv)
                  IN Outcome(content, n.fh, << ReplyOpened(n.ret, AsU32(flags)) >>)
    [] ino = 1 -> Outcome(content, fhv, << ReplyError(21) >>)
    [] OTHER   -> Outcome(content, fhv, << ReplyError(ENOENT) >>)

open(content, fhv, ino, flags) ==
  IF ino = 2
  THEN LET n == next_fh(fhv)
       IN Outcome(content, n.fh, << ReplyOpened(n.ret, AsU32(flags)) >>)
  ELSE Outcome(content, fhv, << ReplyError(ENOENT) >>)

\* usize arithmetic.  `checks` says whether the build has overflow checks
\* (a debug build): with them an overflow panics, without them it wraps.
SubOverflows(a, b) == b > a
WrappingSub(a, b) == (a - b) % UsizeModulus
AddOverflows(a, b) == a + b >= UsizeModulus
WrappingAdd(a, b) == (a + b) % UsizeModulus
\* Indexing a slice of length len with start .. end panics unless
\* start <= end <= len.
SliceIndexPanics(len, start, end) == start > end \/ end > len
\* s[start .. end] (0-based, end exclusive).
Slice(s, start, end) == SubSeq(s, start + 1, end)

\* Mutant: a handle that open has not returned yet is refused.
read_validates_handle(content, fhv, ino, h, offset, size, checks) ==
  IF ino = 2 /\ h < fhv
  THEN LET off == AsUsize(offset)
           len == Len(content)
           read_size == Min(size, WrappingSub(len, off))
           end == WrappingAdd(off, read_size)
       IN IF checks /\ (SubOverflows(len, off) \/ AddOverflows(off, read_size))
          THEN Panic(content, fhv)
          ELSE IF SliceIndexPanics(len, off, end)
          THEN Panic(content, fhv)
          ELSE Outcome(content, fhv, << ReplyData(Slice(content, off, end)) >>)
  ELSE Outcome(content, fhv, << ReplyError(ENOENT) >>)

\* Mutant: the size is clamped to the buffer length, not to what is left
\* after the offset.
read_clamps_to_len(content, fhv, ino, h, offset, size, checks) ==
  IF ino = 2
  THEN LET off == AsUsize(offset)
           len == Len(content)
           read_size == Min(size, len)
           end == WrappingAdd(off, read_size)
       IN IF checks /\ AddOverflows(off, read_size)
          THEN Panic(content, fhv)
          ELSE IF SliceIndexPanics(len, off, end)
          THEN Panic(content, fhv)
          ELSE Outcome(content, fhv, << ReplyData(Slice(content, off, end)) >>)
  ELSE Outcome(content, fhv, << ReplyError(ENOENT) >>)

\* Mutant: the size asked for is ignored, the reply runs to the buffer end.
read_ignores_size(content, fhv, ino, h, offset, size, checks) ==
  IF ino = 2
  THEN LET off == AsUsize(offset)
           len == Len(content)
       IN IF checks /\ SubOverflows(len, off)
          THEN Panic(content, fhv)
          ELSE IF SliceIndexPanics(len, off, len)
          THEN Panic(content, fhv)
          ELSE Outcome(content, fhv, << ReplyData(Slice(content, off, len)) >>)
  ELSE Outcome(content, fhv, << ReplyError(ENOENT) >>)

read(content, fhv, ino, h, offset, size, checks) ==
  IF ino = 2
  THEN LET off == AsUsize(offset)
           sz == size
           len == Len(content)
           read_size == Min(sz, WrappingSub(len, off))
           end == WrappingAdd(off, read_size)
       IN IF checks /\ (SubOverflows(len, off) \/ AddOverflows(off, read_size))
          THEN Panic(content, fhv)
          ELSE IF SliceIndexPanics(len, off, end)
          THEN Panic(content, fhv)
          ELSE Outcome(content, fhv, << ReplyData(Slice(content, off, end)) >>)
  ELSE Outcome(content, fhv, << ReplyError(ENOENT) >>)

\* Mutant: an offset beyond the end is checked and refused with an error.
write_checks_offset(content, fhv, ino, h, offset, data, checks) ==
  IF ino = 2 /\ AsUsize(offset) <= Len(content)
  THEN LET off == AsUsize(offset)
           len == Len(content)
           overwrite_len == Min(Len(data), len - off)
       IN Outcome(Slice(content, 0, off) \o Slice(data, 0, overwrite_len)
                    \o Slice(content, off + overwrite_len, len)
                    \o Slice(data, overwrite_len, Len(data)),
                  fhv, << ReplyWritten(AsU32(Len(data))) >>)
  ELSE Outcome(content, fhv, << ReplyError(ENOENT) >>)

\* Mutant: the data is inserted at the offset, the old tail moved behind it.
write_inserts(content, fhv, ino, h, offset, data, checks) ==
  IF ino = 2
  THEN LET off == AsUsize(offset)
           len == Len(content)
       IN IF SubOverflows(len, off)
          THEN Panic(content, fhv)
          ELSE Outcome(Slice(content, 0, off) \o data \o Slice(content, off, len),
                       fhv, << ReplyWritten(AsU32(Len(data))) >>)
  ELSE Outcome(content, fhv, << ReplyError(ENOENT) >>)

\* Mutant: the offset is only checked, the data always goes to the end.
write_appends(content, fhv, ino, h, offset, data, checks) ==
  IF ino = 2
  THEN LET off == AsUsize(offset)
           len == Len(content)
       IN IF SubOverflows(len, off)
          THEN Panic(content, fhv)
          ELSE Outcome(content \o data, fhv,
                       << ReplyWritten(AsU32(Len(data))) >>)
  ELSE Outcome(content, fhv, << ReplyError(ENOENT) >>)

\* Mutant: the overlapping bytes are not copied, only the rest is appended.
write_no_overwrite(content, fhv, ino, h, offset, data, checks) ==
  IF ino = 2
  THEN LET off == AsUsize(offset)
           len == Len(content)
           overwrite_len == Min(Len(data), WrappingSub(len, off))
       IN IF SubOverflows(len, off)
          THEN Panic(content, fhv)
          ELSE Outcome(content \o Slice(data, overwrite_len, Len(data)), fhv,
                       << ReplyWritten(AsU32(Len(data))) >>)
  ELSE Outcome(content, fhv, << ReplyError(ENOENT) >>)

\* Mutant: truncate-then-write, the buffer ends where the written data ends.
write_truncates(content, fhv, ino, h, offset, data, checks) ==
  IF ino = 2
  THEN LET off == AsUsize(offset)
           len == Len(content)
       IN IF SubOverflows(len, off)
          THEN Panic(content, fhv)
          ELSE Outcome(Slice(content, 0, off) \o data, fhv,
                       << ReplyWritten(AsU32(Len(data))) >>)
  ELSE Outcome(content, fhv, << ReplyError(ENOENT) >>)

write(content, fhv, ino, h, offset, data, checks) ==
  IF ino = 2
  THEN LET off == AsUsize(offset)
           len == Len(content)
           overwrite_len == Min(Len(data), WrappingSub(len, off))
           end == WrappingAdd(off, overwrite_len)
           \* copy_from_slice over [off, end), then extend_from_slice
           copied == Slice(content, 0, off)
                       \o Slice(data, 0, overwrite_len)
                       \o Slice(content, end, len)
           extended == copied \o Slice(data, overwrite_len, Len(data))
       IN IF checks /\ (SubOverflows(len, off) \/ AddOverflows(off, overwrite_len))
          THEN Panic(content, fhv)
          ELSE IF SliceIndexPanics(len, off, end)
          THEN Panic(content, fhv)
          ELSE Outcome(extended, fhv, << ReplyWritten(AsU32(Len(data))) >>)
  ELSE Outcome(content, fhv, << ReplyError(ENOENT) >>)

\* Mutant: a full sink does not end the loop (continue for break).
RECURSIVE readdir_loop_no_break(_, _, _, _)
readdir_loop_no_break(i, sink, accepted, attempts) ==
  IF i >= Len(entries)
  THEN ReplyDirectory(accepted, attempts)
  ELSE LET entry == entries[i + 1]
           full == sink[attempts + 1]
       IN readdir_loop_no_break(i + 1, sink,
            IF full THEN accepted
            ELSE Append(accepted, [ino |-> entry.ino, offset |-> i + 1,
                                   kind |-> entry.kind, name |-> entry.name]),
            attempts + 1)

\* The loop of readdir from index i (0-based) on.  sink[k] is the answer of
\* the k-th call of reply.add in this request: TRUE when the sink is full
\* (the entry is then not taken).  `accepted` are the entries taken so far,
\* `attempts` the calls of reply.add made so far.
RECURSIVE readdir_loop(_, _, _, _)
readdir_loop(i, sink, accepted, attempts) ==
  IF i >= Len(entries)
  THEN ReplyDirectory(accepted, attempts)
  ELSE LET entry == entries[i + 1]
           full == sink[attempts + 1]
       IN IF full
          THEN ReplyDirectory(accepted, attempts + 1)
          ELSE readdir_loop(i + 1, sink,
                 Append(accepted, [ino |-> entry.ino, offset |-> i + 1,
                                   kind |-> entry.kind, name |-> entry.name]),
                 attempts + 1)

\* Mutant: the offset is not skipped, every call lists from the start.
readdir_no_skip(content, fhv, ino, h, offset, sink) ==
  IF ino # 1
  THEN Outcome(content, fhv, << ReplyError(ENOENT) >>)
  ELSE Outcome(content, fhv, << readdir_loop(0, sink, << >>, 0) >>)

readdir(content, fhv, ino, h, offset, sink) ==
  IF ino # 1
  THEN Outcome(content, fhv, << ReplyError(ENOENT) >>)
  ELSE Outcome(content, fhv, << readdir_loop(AsUsize(offset), sink, << >>, 0) >>)

\* ------------------------------------------------------------------ inputs
\* ROOT, FILE and an inode that does not exist.
Inodes == {1, 2, 3}
\* A handle open returns first, and one it never returns within the bounds.
Handles == {0, MaxFh + 1}
\* Offsets: negative, inside the buffer, at its end, beyond its end.
Offsets == -1 .. MaxLen + 1
Sizes == {0, 2, MaxLen + 1}
WriteData == { << >>, << 1 >>, << 1, 2 >> }
Names == {"hello.txt", "Hello.txt", "hello.txt\\xFF"}
OpenFlags == {0, -1}
\* Readings of the wall clock.
Times == {1, 2}
\* The answers of the reply sink to the first, second and third reply.add.
Sinks == [1 .. Len(entries) -> BOOLEAN]
NeverFull == [k \in 1 .. Len(entries) |-> FALSE]
DirOffsets == -1 .. Len(entries) + 1

\* The requests the model makes: every combination of arguments on the inode
\* an operation serves, a few on the inodes it refuses.
ReadCalls ==
  {<< 2, h, o, n >> : h \in Handles, o \in Offsets, n \in Sizes}
    \cup {<< i, h, o, 2 >> : i \in {1, 3}, h \in Handles, o \in {0, MaxLen + 1}}
WriteCalls ==
  {<< 2, h, o, d >> : h \in Handles, o \in Offsets, d \in WriteData}
    \cup {<< i, h, o, << 1 >> >> : i \in {1, 3}, h \in Handles, o \in {0, MaxLen + 1}}
ReaddirCalls ==
  {<< 1, o, k >> : o \in DirOffsets, k \in Sinks}
    \cup {<< i, o, NeverFull >> : i \in {2, 3}, o \in {0, 1}}

\* setattr requests: nothing supplied, one field supplied, all supplied; a
\* size below and a size above every buffer length.
NoChange ==
  [mode |-> None, uid |-> None, gid |-> None, size |-> None,
   atime |-> None, mtime |-> None, fh |-> None, flags |-> None]
AllChanged(sz) ==
  [mode |-> Some(511), uid |-> Some(0), gid |-> Some(0), size |-> Some(sz),
   atime |-> Some(2), mtime |-> Some(2), fh |-> Some(0), flags |-> Some(1)]
SetattrRequests ==
  {NoChange, AllChanged(MaxLen + 1), [NoChange EXCEPT !.size = Some(0)],
   [NoChange EXCEPT !.mode = Some(511)]}
\* Every subset of the optional fields, with a size of 0, 1 or MaxLen + 1.
AllSetattrRequests ==
  [mode : {None, Some(511)}, uid : {None, Some(0)}, gid : {None, Some(0)},
   size : {None, Some(0), Some(1), Some(MaxLen + 1)},
   atime : {None, Some(2)}, mtime : {None, Some(2)}, fh : {None, Some(0)},
   flags : {None, Some(1)}]

\* The byte strings of the test stale_data_bug: "Init" and "Hello World!".
InitBytes == << 73, 110, 105, 116 >>
HelloWorldBytes == << 72, 101, 108, 108, 111, 32, 87, 111, 114, 108, 100, 33 >>
ScenarioData == {InitBytes, HelloWorldBytes}

\* ------------------------------------------------------------------- state
VARIABLES
  fh,                 \* HelloFS.fh
  hello_txt_content,  \* HelloFS.hello_txt_content
  panicked,           \* a handler panicked: the process is gone
  call,               \* the last call made, with its arguments
  replies,            \* the replies that call issued, in order
  pre,                \* fh and hello_txt_content when that call was made
  rd,                 \* observer: progress along open, writes, one call
  scn,                \* observer: progress along the scenario of the test
  handles,            \* observer: the handles open has returned, in order
  cl_off,             \* listing client: the offset of its next readdir
  cl_seen,            \* listing client: the entries it has received
  cl_status,          \* listing client: "listing", "done" or "error"
  cache               \* caching client: the FILE size it holds, and for how long

vars == << fh, hello_txt_content, panicked, call, replies, pre, rd, scn,
           handles, cl_off, cl_seen, cl_status, cache >>
client == << cl_off, cl_seen, cl_status, cache >>

\* fuser::mount2(HelloFS { fh: 0, hello_txt_content: vec![] }, ...)
Init ==
  /\ fh = 0
  /\ hello_txt_content = << >>
  /\ panicked = FALSE
  /\ call = [op |-> "mount"]
  /\ replies = << >>
  /\ pre = [content |-> << >>, fh |-> 0]
  /\ rd = 0
  /\ scn = 0
  /\ handles = << >>
  /\ cl_off = 0
  /\ cl_seen = << >>
  /\ cl_status = "listing"
  /\ cache = None

\* Progress along: open FILE, write "Init" at 0, write "Hello World!" at 0,
\* getattr FILE.  Any other call leaves the scenario (-1).
ScnNext(s, c) ==
  CASE s = 0 /\ c.op = "open" /\ c.ino = 2 -> 1
    [] s = 1 /\ c.op = "write" /\ c.ino = 2 /\ c.offset = 0
             /\ c.data = InitBytes -> 2
    [] s = 2 /\ c.op = "write" /\ c.ino = 2 /\ c.offset = 0
             /\ c.data = HelloWorldBytes -> 3
    [] s = 3 /\ c.op = "getattr" /\ c.ino = 2 -> 4
    [] OTHER -> -1

\* Progress along: open FILE as the first call (1), then writes that change
\* the buffer (2), then one call that is not a write (3).  Any other call
\* leaves it (-1).
RdNext(s, c, changed) ==
  CASE s = 0 /\ c.op = "open" /\ c.ino = 2 -> 1
    [] s \in {1, 2} /\ c.op = "write" /\ changed -> 2
    [] s = 2 /\ c.op # "write" -> 3
    [] OTHER -> -1

\* One request: the transport hands call c to the handler, whose outcome is
\* out.  Calls are served one at a time, and none after a panic.
Serve(c, out) ==
  /\ ~panicked
  /\ call' = c
  /\ pre' = [content |-> hello_txt_content, fh |-> fh]
  /\ hello_txt_content' = out.content
  /\ fh' = out.fh
  /\ replies' = out.replies
  /\ panicked' = out.panicked
  /\ rd' = RdNext(rd, c, out.content # hello_txt_content)
  /\ scn' = ScnNext(scn, c)
  /\ handles' = IF c.op = "open" /\ Len(out.replies) = 1
                     /\ out.replies[1].kind = "opened"
                  THEN Append(handles, out.replies[1].fh)
                  ELSE handles

LookupOp(parent, name, now) ==
  /\ Serve([op |-> "lookup", parent |-> parent, name |-> name, now |-> now],
           lookup(hello_txt_content, fh, parent, name, now))
  /\ UNCHANGED client

GetattrOp(ino, now) ==
  /\ Serve([op |-> "getattr", ino |-> ino, now |-> now],
           getattr(hello_txt_content, fh, ino, now))
  /\ UNCHANGED client

SetattrOp(ino, req, now) ==
  /\ Serve([op |-> "setattr", ino |-> ino, req |-> req, now |-> now],
           setattr(hello_txt_content, fh, ino, req, now))
  /\ UNCHANGED client

OpenOp(ino, flags) ==
  /\ fh < MaxFh
  /\ Serve([op |-> "open", ino |-> ino, flags |-> flags],
           open(hello_txt_content, fh, ino, flags))
  /\ UNCHANGED client

ReadOp(ino, h, offset, size, checks) ==
  /\ Serve([op |-> "read", ino |-> ino, fh |-> h, offset |-> offset,
            size |-> size],
           read(hello_txt_content, fh, ino, h, offset, size, checks))
  /\ UNCHANGED client

\* cap bounds the buffer length the model follows.
WriteOp(ino, h, offset, data, checks, cap) ==
  LET out == write(hello_txt_content, fh, ino, h, offset, data, checks)
  IN /\ Len(out.content) <= cap
     /\ Serve([op |-> "write", ino |-> ino, fh |-> h, offset |-> offset,
               data |-> data], out)
     /\ UNCHANGED client

ReaddirOp(ino, h, offset, sink) ==
  /\ Serve([op |-> "readdir", ino |-> ino, fh |-> h, offset |-> offset,
            sink |-> sink],
           readdir(hello_txt_content, fh, ino, h, offset, sink))
  /\ UNCHANGED client

Lookup == \E parent \in Inodes, name \in Names, now \in Times :
            LookupOp(parent, name, now)
Getattr == \E ino \in Inodes, now \in Times : GetattrOp(ino, now)
Setattr == \E ino \in Inodes, req \in SetattrRequests, now \in Times :
             SetattrOp(ino, req, now)
Open == \E ino \in Inodes, flags \in OpenFlags : OpenOp(ino, flags)
Read == \E c \in ReadCalls, checks \in BOOLEAN :
          ReadOp(c[1], c[2], c[3], c[4], checks)
Write == \E c \in WriteCalls, checks \in BOOLEAN :
           WriteOp(c[1], c[2], c[3], c[4], checks, MaxLen)
Readdir == \E c \in ReaddirCalls : ReaddirOp(c[1], 0, c[2], c[3])

Next == Lookup \/ Getattr \/ Setattr \/ Open \/ Read \/ Write \/ Readdir

Spec == Init /\ [][Next]_vars

\* -------------------------------------------- the scenario of the test
\* The calls of stale_data_bug and of the scenario built on it: FILE is
\* opened, "Init" and "Hello World!" are written at offset 0 or at the end of
\* the buffer, FILE is read from offset 0 and its attributes are queried.
ScenarioCap == Len(HelloWorldBytes)
ScenarioOpen == \E flags \in OpenFlags : OpenOp(2, flags)
ScenarioWrite ==
  \E h \in Handles, o \in {0, Len(hello_txt_content)}, d \in ScenarioData,
     checks \in BOOLEAN : WriteOp(2, h, o, d, checks, ScenarioCap)
ScenarioRead ==
  \E h \in Handles, n \in {Len(InitBytes), 2 * ScenarioCap}, checks \in BOOLEAN :
     ReadOp(2, h, 0, n, checks)
ScenarioGetattr == \E now \in Times : GetattrOp(2, now)

NextScenario == ScenarioOpen \/ ScenarioWrite \/ ScenarioRead \/ ScenarioGetattr

SpecScenario == Init /\ [][NextScenario]_vars

\* ------------------------------------------------------ a listing client
\* A client lists ROOT the way readdir(3) does: it calls readdir with the
\* next-offset tag of the last entry it received (0 at the start) until a
\* call returns no entry.  Its sink takes at least the first entry offered.
ClientGivesUp == 2 * Len(entries)
ClientReaddir ==
  /\ cl_status = "listing"
  /\ \E sink \in Sinks :
       /\ sink[1] = FALSE
       /\ LET out == readdir(hello_txt_content, fh, 1, 0, cl_off, sink)
              ok == Len(out.replies) = 1 /\ out.replies[1].kind = "directory"
              got == IF ok THEN out.replies[1].entries ELSE << >>
          IN /\ Serve([op |-> "readdir", ino |-> 1, fh |-> 0,
                       offset |-> cl_off, sink |-> sink], out)
             /\ cl_seen' = cl_seen \o got
             /\ cl_off' = IF got = << >> THEN cl_off ELSE got[Len(got)].offset
             /\ cl_status' = IF ~ok \/ Len(cl_seen \o got) > ClientGivesUp
                             THEN "error"
                             ELSE IF got = << >> THEN "done" ELSE "listing"
             /\ UNCHANGED cache

NextClient == Readdir \/ ClientReaddir

\* The client keeps calling while it is listing.
SpecClient == Init /\ [][NextClient]_vars /\ WF_vars(ClientReaddir)

\* ----------------------------------------------------- a caching client
\* A client that keeps the size of the last FILE attributes it received and
\* reuses it without asking again for the TTL (in seconds) the reply came
\* with; it reads FILE from the start, up to the size it holds.  Other
\* clients write to FILE meanwhile.
CacheValid == cache # None /\ cache[1].ttl > 0

\* With no valid attributes the client asks: getattr on FILE.
CacheGetattr ==
  /\ ~CacheValid
  /\ \E now \in Times :
       LET out == getattr(hello_txt_content, fh, 2, now)
       IN /\ Serve([op |-> "getattr", ino |-> 2, now |-> now], out)
          /\ cache' = IF Len(out.replies) = 1 /\ out.replies[1].kind = "attr"
                       THEN Some([size |-> out.replies[1].attr.size,
                                  ttl |-> out.replies[1].ttl])
                       ELSE None
  /\ UNCHANGED << cl_off, cl_seen, cl_status >>

\* ... or looks the file up in ROOT.
CacheLookup ==
  /\ ~CacheValid
  /\ \E now \in Times :
       LET out == lookup(hello_txt_content, fh, 1, "hello.txt", now)
       IN /\ Serve([op |-> "lookup", parent |-> 1, name |-> "hello.txt",
                    now |-> now], out)
          /\ cache' = IF Len(out.replies) = 1 /\ out.replies[1].kind = "entry"
                       THEN Some([size |-> out.replies[1].attr.size,
                                  ttl |-> out.replies[1].ttl])
                       ELSE None
  /\ UNCHANGED << cl_off, cl_seen, cl_status >>

\* A second passes.
CacheTick ==
  /\ CacheValid
  /\ cache' = Some([cache[1] EXCEPT !.ttl = @ - 1])
  /\ UNCHANGED << fh, hello_txt_content, panicked, call, replies, pre, rd,
                  scn, handles, cl_off, cl_seen, cl_status >>

\* The client reads FILE from the start, bounded by the size it holds.
CachedRead ==
  /\ CacheValid
  /\ \E h \in Handles, checks \in BOOLEAN :
       Serve([op |-> "read", ino |-> 2, fh |-> h, offset |-> 0,
              size |-> cache[1].size],
             read(hello_txt_content, fh, 2, h, 0, cache[1].size, checks))
  /\ UNCHANGED client

NextCache == CacheGetattr \/ CacheLookup \/ CacheTick \/ CachedRead \/ Write

SpecCache == Init /\ [][NextCache]_vars

\* ================================================================ claims
\* The last call was served on FILE with an offset inside [0, old length].
InRange(op) ==
  /\ call.op = op
  /\ call.ino = 2
  /\ 0 <= call.offset
  /\ call.offset <= Len(pre.content)

\* C1: a write on FILE with 0 <= offset <= old length leaves a buffer of
\* length max(old length, offset + |data|); with overlap = min(|data|, old
\* length - offset), bytes [offset, offset + overlap) of the new buffer are
\* the first overlap bytes of data and bytes [old length, offset + |data|)
\* are the rest of data; the one reply is a written-count equal to |data|.
C1_WriteEffect ==
  InRange("write") =>
    LET old == pre.content
        new == hello_txt_content
        data == call.data
        off == call.offset
        overlap == Min(Len(data), Len(old) - off)
    IN /\ ~panicked
       /\ Len(new) = Max(Len(old), off + Len(data))
       /\ \A i \in 0 .. overlap - 1 : new[off + i + 1] = data[i + 1]
       /\ \A j \in overlap .. Len(data) - 1 :
            new[Len(old) + (j - overlap) + 1] = data[j + 1]
       /\ replies = << [kind |-> "written", size |-> Len(data)] >>

\* C1 witness: a write that overwrites the end of the buffer and grows it.
C1_Witness ==
  /\ InRange("write")
  /\ ~panicked
  /\ 0 < call.offset
  /\ call.offset < Len(pre.content)
  /\ call.offset + Len(call.data) > Len(pre.content)

\* C2: a read on FILE with 0 <= offset <= length replies with data of length
\* min(size, length - offset) that is the buffer slice starting at offset; a
\* read of size 0 or at the end of the buffer replies with empty data, not
\* with an error.
C2_ReadSlice ==
  InRange("read") =>
    LET buf == pre.content
        off == call.offset
        n == Min(call.size, Len(buf) - off)
    IN /\ ~panicked
       /\ Len(replies) = 1
       /\ replies[1].kind = "data"
       /\ Len(replies[1].data) = n
       /\ \A i \in 1 .. n : replies[1].data[i] = buf[off + i]
       /\ (call.size = 0 \/ off = Len(buf)) => replies[1] = [kind |-> "data", data |-> << >>]

\* C2 witness: a read past the middle of the buffer that asks for more than
\* is left and gets what is left.
C2_Witness ==
  /\ InRange("read")
  /\ 0 < call.offset
  /\ call.offset < Len(pre.content)
  /\ call.size > Len(pre.content) - call.offset
  /\ Len(replies) = 1
  /\ replies[1].kind = "data"
  /\ Len(replies[1].data) = Len(pre.content) - call.offset

\* The last call returns attributes of FILE: getattr or setattr on FILE, or
\* the lookup of "hello.txt" under ROOT.
ReturnsFileAttr ==
  \/ call.op \in {"getattr", "setattr"} /\ call.ino = 2
  \/ call.op = "lookup" /\ call.parent = 1 /\ call.name = "hello.txt"

\* C3: the size in the attributes returned for FILE by getattr, setattr and
\* a successful lookup is the length of the content buffer at that call: 0
\* after mount, the new length after a write.
C3_SizeIsLength ==
  ReturnsFileAttr =>
    /\ Len(replies) = 1
    /\ replies[1].kind \in {"attr", "entry"}
    /\ replies[1].attr.size = Len(hello_txt_content)
    /\ hello_txt_content = pre.content

\* C3 witness: getattr on FILE right after a write that grew the buffer.
C3_Witness ==
  /\ call.op = "getattr"
  /\ call.ino = 2
  /\ rd = 3
  /\ Len(replies) = 1
  /\ replies[1].kind = "attr"
  /\ replies[1].attr.size = Len(hello_txt_content)
  /\ Len(hello_txt_content) > 0

\* C4: every call of lookup, getattr, setattr, open, read, write and
\* readdir, whatever its arguments, runs to completion and issues exactly
\* one reply.
C4_ExactlyOneReply ==
  call.op # "mount" => ~panicked /\ Len(replies) = 1

\* The state and replies the last call left, as an outcome.
Observed ==
  [content |-> hello_txt_content, fh |-> fh, replies |-> replies,
   panicked |-> panicked]

\* C5: a read on FILE returns the slice of the buffer as it is when the read
\* is served (also after writes that followed the open of its handle), and
\* the outcome of a read or write is the same for every handle value, issued
\* by open or not.
C5_LiveAndHandleFree ==
  /\ (call.op = "read" /\ call.ino = 2 /\ ~panicked) =>
       /\ Len(replies) = 1
       /\ replies[1].kind = "data"
       /\ replies[1].data =
            SubSeq(hello_txt_content, call.offset + 1,
                   call.offset + Min(call.size, Len(hello_txt_content) - call.offset))
  /\ call.op = "read" =>
       \A h \in 0 .. MaxFh + 1, checks \in BOOLEAN :
         read(pre.content, pre.fh, call.ino, h, call.offset, call.size, checks)
           = Observed
  /\ call.op = "write" =>
       \A h \in 0 .. MaxFh + 1, checks \in BOOLEAN :
         write(pre.content, pre.fh, call.ino, h, call.offset, call.data, checks)
           = Observed

\* C5 witness: FILE was opened on the empty buffer (the open returned handle
\* 0), writes then filled the buffer, and the read through handle 0 that
\* follows returns bytes.
C5_Witness ==
  /\ rd = 3
  /\ call.op = "read"
  /\ call.ino = 2
  /\ call.fh = 0
  /\ Len(replies) = 1
  /\ replies[1].kind = "data"
  /\ replies[1].data # << >>
  /\ replies[1].data = hello_txt_content

\* C6: from mount, open FILE, write "Init" at 0, write "Hello World!" at 0:
\* the buffer is "Init" after the first write and "Hello World!" (12 bytes)
\* after the second, and the getattr on FILE that follows reports size 12.
C6_Scenario ==
  /\ scn = 2 => hello_txt_content = InitBytes
  /\ scn = 3 => hello_txt_content = HelloWorldBytes /\ Len(hello_txt_content) = 12
  /\ scn = 4 => /\ hello_txt_content = HelloWorldBytes
                /\ Len(replies) = 1
                /\ replies[1].kind = "attr"
                /\ replies[1].attr.size = 12

\* C6 witness: the scenario ran to its end.
C6_Witness ==
  /\ scn = 4
  /\ call.op = "getattr"
  /\ Len(replies) = 1
  /\ replies[1].kind = "attr"
  /\ replies[1].attr.size = 12

\* C7: setattr applies nothing it is asked: on ROOT and FILE it replies what
\* getattr replies in the same state (with the same clock reading), whatever
\* fields are supplied, and leaves the buffer and the handle counter as they
\* were, also for a size below or above the buffer length; on any other
\* inode it replies NotFound.
C7_SetattrEchoes ==
  call.op = "setattr" =>
    /\ ~panicked
    /\ hello_txt_content = pre.content
    /\ fh = pre.fh
    /\ replies = getattr(pre.content, pre.fh, call.ino, call.now).replies
    /\ call.ino \in {1, 2} => Len(replies) = 1 /\ replies[1].kind = "attr"
    /\ call.ino = 2 => replies[1].attr.size = Len(pre.content)
    /\ call.ino \notin {1, 2} => replies = << [kind |-> "error", errno |-> ENOENT] >>
    /\ \A req \in AllSetattrRequests :
         setattr(pre.content, pre.fh, call.ino, req, call.now) = Observed

\* C7 witness: setattr on FILE with size 0 on a non-empty buffer.
C7_Witness ==
  /\ call.op = "setattr"
  /\ call.ino = 2
  /\ call.req.size = Some(0)
  /\ Len(pre.content) > 0
  /\ hello_txt_content = pre.content
  /\ Len(replies) = 1
  /\ replies[1].kind = "attr"

\* C8: lookup replies with an entry exactly when parent is ROOT and the name
\* is "hello.txt": inode FILE, the current attributes of FILE, generation 0
\* and the TTL; otherwise NotFound.  lookup changes no state.
C8_Lookup ==
  call.op = "lookup" =>
    /\ ~panicked
    /\ hello_txt_content = pre.content
    /\ fh = pre.fh
    /\ Len(replies) = 1
    /\ IF call.parent = 1 /\ call.name = "hello.txt"
       THEN /\ replies[1].kind = "entry"
            /\ replies[1].attr.ino = 2
            /\ replies[1].attr.size = Len(pre.content)
            /\ << [kind |-> "attr", ttl |-> replies[1].ttl, attr |-> replies[1].attr] >>
                 = getattr(pre.content, pre.fh, 2, call.now).replies
            /\ replies[1].generation = 0
            /\ replies[1].ttl = TTL
       ELSE replies[1] = [kind |-> "error", errno |-> ENOENT]

\* C8 witness: a successful lookup on a non-empty buffer.
C8_Witness ==
  /\ call.op = "lookup"
  /\ Len(replies) = 1
  /\ replies[1].kind = "entry"
  /\ Len(hello_txt_content) > 0

\* The listing of ROOT with the next-offset tags.
Listing ==
  << [ino |-> 1, offset |-> 1, kind |-> "Directory", name |-> "."],
     [ino |-> 1, offset |-> 2, kind |-> "Directory", name |-> ".."],
     [ino |-> 2, offset |-> 3, kind |-> "RegularFile", name |-> "hello.txt"] >>

\* C9: with a sink that is never full, readdir(ROOT, k) for 0 <= k lists
\* the entries at positions k..2 in order with tags k+1..3 (all three for
\* k = 0, none for k >= 3) and completes with success; readdir on another
\* inode replies NotFound and lists nothing.
C9_ReaddirListing ==
  call.op = "readdir" =>
    /\ ~panicked
    /\ Len(replies) = 1
    /\ (call.ino = 1 /\ call.sink = NeverFull /\ call.offset >= 0) =>
         /\ replies[1].kind = "directory"
         /\ replies[1].entries = SubSeq(Listing, call.offset + 1, 3)
         /\ call.offset = 0 => replies[1].entries = Listing
         /\ call.offset >= 3 => replies[1].entries = << >>
    /\ call.ino # 1 => replies[1] = [kind |-> "error", errno |-> ENOENT]

\* C9 witness: readdir(ROOT, 1) lists ".." and "hello.txt".
C9_Witness ==
  /\ call.op = "readdir"
  /\ call.ino = 1
  /\ call.sink = NeverFull
  /\ call.offset = 1
  /\ Len(replies) = 1
  /\ replies[1].kind = "directory"
  /\ Len(replies[1].entries) = 2

\* s is the start of t.
IsPrefix(s, t) == Len(s) <= Len(t) /\ s = SubSeq(t, 1, Len(s))

\* What C10 says of one readdir on ROOT: one successful reply; the entries
\* taken are consecutive from the offset and each was accepted by the sink;
\* reply.add is called once more only if that call was refused, and the loop
\* ends only on a refusal or at the end of the listing.
C10_StopsWhenFull ==
  (call.op = "readdir" /\ call.ino = 1) =>
    /\ ~panicked
    /\ Len(replies) = 1
    /\ replies[1].kind = "directory"
    /\ LET n == Len(replies[1].entries)
           first == Min(AsUsize(call.offset), Len(Listing))
       IN /\ replies[1].entries = SubSeq(Listing, first + 1, first + n)
          /\ \A k \in 1 .. n : call.sink[k] = FALSE
          /\ replies[1].attempts \in {n, n + 1}
          /\ replies[1].attempts = n + 1 => call.sink[n + 1] = TRUE
          /\ replies[1].attempts = n => first + n = Len(Listing)

\* What C10 says of the client: what it has received is the listing so far,
\* nothing skipped or repeated, and all of it once it is done.
C10_ClientInOrder ==
  /\ cl_status # "error"
  /\ IsPrefix(cl_seen, Listing)
  /\ cl_off = Len(cl_seen)
  /\ cl_status = "done" => cl_seen = Listing

\* C10: readdir on ROOT with a bounded sink stops at the first entry the
\* sink refuses and still succeeds, also with nothing accepted; a client
\* that repeats readdir from the tag of the last entry it took, with a sink
\* that takes at least one entry per call, receives the three entries once
\* each, in order, and ends with an empty listing.
C10_BoundedSink ==
  /\ [](C10_StopsWhenFull /\ C10_ClientInOrder)
  /\ <>(cl_status = "done" /\ cl_seen = Listing)

\* C10 witness: the client holds two entries after a call whose sink took
\* one entry and refused the next; it resumes at offset 2.
C10_Witness ==
  /\ cl_status = "listing"
  /\ Len(cl_seen) = 2
  /\ cl_off = 2
  /\ call.op = "readdir"
  /\ call.offset = 1
  /\ Len(replies) = 1
  /\ replies[1].kind = "directory"
  /\ Len(replies[1].entries) = 1
  /\ replies[1].attempts = 2

\* C11: open succeeds only on FILE, returning a fresh handle and the flags
\* it was given (the same 32 bits); on any other inode it replies NotFound.
\* The handles returned are pairwise distinct, the n-th being n - 1; the
\* counter grows by one per successful open and by nothing else.
C11_OpenHandles ==
  /\ call.op = "open" =>
       /\ ~panicked
       /\ Len(replies) = 1
       /\ hello_txt_content = pre.content
       /\ IF call.ino = 2
          THEN /\ replies[1].kind = "opened"
               /\ replies[1].fh = pre.fh
               /\ \A n \in 1 .. Len(handles) - 1 : handles[n] # replies[1].fh
               /\ call.flags >= 0 => replies[1].flags = call.flags
               /\ (replies[1].flags - call.flags) % U32Modulus = 0
               /\ replies[1].flags \in 0 .. U32Modulus - 1
               /\ fh = pre.fh + 1
          ELSE /\ replies[1] = [kind |-> "error", errno |-> ENOENT]
               /\ fh = pre.fh
  /\ call.op # "open" => fh = pre.fh
  /\ \A n \in 1 .. Len(handles) : handles[n] = n - 1
  /\ \A m, n \in 1 .. Len(handles) : m # n => handles[m] # handles[n]
  /\ fh = Len(handles)

\* C11 witness: the second successful open returned handle 1.
C11_Witness ==
  /\ call.op = "open"
  /\ call.ino = 2
  /\ handles = << 0, 1 >>
  /\ Len(replies) = 1
  /\ replies[1].kind = "opened"
  /\ replies[1].fh = 1
  /\ fh = 2

\* The last call addressed an inode its operation does not serve.
RefusedInode ==
  \/ call.op \in {"getattr", "setattr"} /\ call.ino \notin {1, 2}
  \/ call.op \in {"open", "read", "write"} /\ call.ino # 2
  \/ call.op = "readdir" /\ call.ino # 1

\* C12: NotFound is the only error the handler replies with.  getattr and
\* setattr outside {ROOT, FILE}, open, read and write outside FILE and
\* readdir outside ROOT reply NotFound and leave the buffer and the handle
\* counter unchanged.
C12_OnlyNotFound ==
  /\ \A k \in 1 .. Len(replies) :
       replies[k].kind = "error" =>
         /\ replies[k].errno = ENOENT
         /\ hello_txt_content = pre.content
         /\ fh = pre.fh
  /\ RefusedInode =>
       /\ ~panicked
       /\ replies = << [kind |-> "error", errno |-> 2] >>
       /\ hello_txt_content = pre.content
       /\ fh = pre.fh

\* C12 witness: a write addressed to ROOT on a non-empty buffer is refused.
C12_Witness ==
  /\ call.op = "write"
  /\ call.ino = 1
  /\ Len(pre.content) > 0
  /\ replies = << [kind |-> "error", errno |-> 2] >>
  /\ hello_txt_content = pre.content

\* Blocks of blksize bytes needed to hold n bytes.
BlocksFor(n, blksize) == (n + blksize - 1) \div blksize

\* C13: in every attribute reply for FILE the size and the block count are
\* recomputed from the buffer length at the call, so the block count is the
\* one of that length (none for an empty buffer), while kind, permissions,
\* link count, owner and group are the same in every reply; the reply for
\* ROOT is the same constant record in every state.
C13_SizeAndBlocksFollowLength ==
  /\ ReturnsFileAttr =>
       /\ Len(replies) = 1
       /\ replies[1].kind \in {"attr", "entry"}
       /\ replies[1].attr.size = Len(hello_txt_content)
       /\ replies[1].attr.blocks
            = BlocksFor(Len(hello_txt_content), replies[1].attr.blksize)
       /\ replies[1].attr.kind = "RegularFile"
       /\ replies[1].attr.perm = 420
       /\ replies[1].attr.nlink = 1
       /\ replies[1].attr.uid = 501
       /\ replies[1].attr.gid = 20
  /\ (call.op \in {"getattr", "setattr"} /\ call.ino = 1) =>
       replies = << [kind |-> "attr", ttl |-> TTL, attr |-> HELLO_DIR_ATTR] >>

\* C14: only write changes the buffer and only open changes the handle
\* counter: lookup, getattr, read and readdir leave both as they were, open
\* leaves the buffer and write leaves the counter.
C14_MutationConfined ==
  /\ call.op \in {"lookup", "getattr", "read", "readdir"} =>
       hello_txt_content = pre.content /\ fh = pre.fh
  /\ call.op = "open" => hello_txt_content = pre.content
  /\ call.op = "write" => fh = pre.fh
  /\ hello_txt_content # pre.content => call.op = "write"
  /\ fh # pre.fh => call.op = "open"

\* C14 witness: an open on a non-empty buffer moved the counter only.
C14_Witness ==
  /\ call.op = "open"
  /\ call.ino = 2
  /\ fh = pre.fh + 1
  /\ Len(pre.content) > 0
  /\ hello_txt_content = pre.content

\* The last call was a read or write on FILE with an offset below 0 or
\* beyond the length the buffer had.
OutOfRange ==
  /\ call.op \in {"read", "write"}
  /\ call.ino = 2
  /\ (call.offset < 0 \/ call.offset > Len(pre.content))

\* C15: a read or write on FILE with an offset outside [0, length] is not
\* validated and fails: the handler replies neither with data or a written
\* count nor with NotFound, whatever the size or the data length (zero
\* included), and the buffer and the handle counter are as before the call.
C15_OutOfRangeFails ==
  OutOfRange =>
    /\ panicked
    /\ \A k \in 1 .. Len(replies) :
         replies[k].kind \notin {"data", "written", "error"}
    /\ replies = << >>
    /\ hello_txt_content = pre.content
    /\ fh = pre.fh

\* C15 witness: a write of no bytes one past the end of a non-empty buffer.
C15_Witness ==
  /\ OutOfRange
  /\ call.op = "write"
  /\ call.data = << >>
  /\ call.offset = Len(pre.content) + 1
  /\ Len(pre.content) > 0
  /\ panicked

\* C16: the buffer never shrinks.  After every operation, setattr with a size
\* field and a write at offset 0 shorter than the buffer included, the buffer
\* is at least as long as it was before the operation; at mount it is empty.
C16_NeverShrinks ==
  /\ Len(hello_txt_content) >= Len(pre.content)
  /\ call.op = "mount" => hello_txt_content = << >>

\* C16 witness: a write at offset 0 of fewer bytes than the buffer holds, that
\* changes the first byte and leaves the length as it was.
C16_Witness ==
  /\ InRange("write")
  /\ ~panicked
  /\ call.offset = 0
  /\ 0 < Len(call.data)
  /\ Len(call.data) < Len(pre.content)
  /\ hello_txt_content # pre.content
  /\ Len(hello_txt_content) = Len(pre.content)

\* C17: the handler does not mask attribute staleness at a caching client.
\* The size the client holds is never above the buffer length, and a read
\* bounded by it is served exactly the first that many bytes of the buffer
\* as it is now: when a write has grown the buffer since the attributes were
\* cached, the client sees less than the buffer holds.
C17_CachedReadIsBounded ==
  /\ cache # None => cache[1].size <= Len(hello_txt_content)
  /\ call.op = "read" /\ ~panicked =>
       /\ cache # None
       /\ replies = << ReplyData(Slice(hello_txt_content, 0, cache[1].size)) >>

\* C17 witness: within the TTL of cached attributes a write has grown the
\* buffer, and a read bounded by the cached size returned fewer bytes than
\* the buffer holds.
C17_Witness ==
  /\ CacheValid
  /\ call.op = "read"
  /\ ~panicked
  /\ cache[1].size # Len(hello_txt_content)
  /\ 0 < cache[1].size
  /\ Len(replies) = 1
  /\ replies[1].kind = "data"
  /\ Len(replies[1].data) = cache[1].size
  /\ Len(replies[1].data) < Len(hello_txt_content)

\* C18: a write on FILE with 0 <= offset <= old length changes only the bytes
\* it targets: every byte of the old buffer at a position outside
\* [offset, offset + |data|) is at the same position with the same value in
\* the new buffer, the bytes behind offset + |data| included when the write
\* ends before the old buffer end.
C18_WriteFrame ==
  InRange("write") =>
    \A i \in 0 .. Len(pre.content) - 1 :
      (i < call.offset \/ i >= call.offset + Len(call.data)) =>
        /\ i < Len(hello_txt_content)
        /\ hello_txt_content[i + 1] = pre.content[i + 1]

\* C18 witness: one byte rewritten in the middle of a three-byte buffer, with
\* a byte before it and a byte behind it.
C18_Witness ==
  /\ InRange("write")
  /\ ~panicked
  /\ Len(pre.content) = 3
  /\ call.offset = 1
  /\ Len(call.data) = 1
  /\ hello_txt_content # pre.content
  /\ hello_txt_content[1] = pre.content[1]
  /\ hello_txt_content[3] = pre.content[3]

\* C19: in every state, for every offset in [0, length] and every data, a
\* write(FILE, offset, data) followed at once by read(FILE, offset, |data|)
\* replies with exactly data, whatever the handles of the two calls and the
\* build; and the same write served a second time leaves the buffer as the
\* first left it.
C19_RoundTrip ==
  \A offset \in 0 .. Len(hello_txt_content), data \in WriteData,
     h1 \in Handles, h2 \in Handles, c1 \in BOOLEAN, c2 \in BOOLEAN :
    LET first == write(hello_txt_content, fh, 2, h1, offset, data, c1)
        back == read(first.content, first.fh, 2, h2, offset, Len(data), c2)
        second == write(first.content, first.fh, 2, h2, offset, data, c2)
    IN /\ ~first.panicked
       /\ back = Outcome(first.content, first.fh, << ReplyData(data) >>)
       /\ second = first

\* C19 witness: a served write of two bytes that overwrote the last byte of
\* the buffer and grew it by one, after which a read at the same offset of
\* the same length replies with those two bytes.
C19_Witness ==
  /\ InRange("write")
  /\ ~panicked
  /\ Len(call.data) = 2
  /\ 0 < call.offset
  /\ call.offset = Len(pre.content) - 1
  /\ \A h \in Handles, checks \in BOOLEAN :
       read(hello_txt_content, fh, 2, h, call.offset, Len(call.data), checks).replies
         = << ReplyData(call.data) >>

=============================================================================
